---- MODULE Spec2Model ----
(***************************************************************************)
(* Model of main.py, the Streamlit marketing-campaign dashboard.           *)
(*                                                                         *)
(* The script is linear: load_data() reads marketing_campaign.csv and      *)
(* derives Year / Month / Region, the sidebar selections filter the frame, *)
(* and the page sections are rendered one after another.  The state is the *)
(* set of module-level names of the script (df, filtered_df,               *)
(* yearly_trends, ...) plus the position of the script (pc).               *)
(*                                                                         *)
(* Response rates are Python floats in the source; the model computes them *)
(* as exact fractions <<numerator, denominator>>.                          *)
(***************************************************************************)
EXTENDS Integers, Sequences, FiniteSets, TLC

VARIABLES
    file_exists,        \* os.path.exists('marketing_campaign.csv')
    csv,                \* the rows of marketing_campaign.csv
    pc,                 \* position of the script
    trace,              \* the steps executed so far, in order
    errors,             \* messages passed to st.error
    exception,          \* the exception that ended the script, "" when none
    df,                 \* result of load_data()
    selected_education, \* st.sidebar.multiselect value
    selected_region,    \* st.sidebar.selectbox value
    filtered_df,        \* df after the two sidebar filters
    existing_years,     \* years of the real yearly means
    min_rates,          \* campaign -> lower end of the envelope
    max_rates,          \* campaign -> upper end of the envelope
    avg_rates,          \* campaign -> base value
    yearly_trends,      \* the yearly trend table (after fill, x100, sort)
    best_months,        \* campaign -> <<month name, rate>>
    comparison_data,    \* full_data_list of the 2023 vs 2024 comparison
    latest_year,        \* latest year of the filtered data (regional charts)
    latest_year_data,   \* rows behind the region/campaign means
    monthly_region      \* monthly table of the selected region

vars == <<file_exists, csv, pc, trace, errors, exception, df, selected_education,
          selected_region, filtered_df, existing_years, min_rates, max_rates,
          avg_rates, yearly_trends, best_months, comparison_data, latest_year,
          latest_year_data, monthly_region>>

inputVars  == <<file_exists, csv>>
filterVars == <<selected_education, selected_region, filtered_df>>
trendVars  == <<existing_years, min_rates, max_rates, avg_rates, yearly_trends>>
laterVars  == <<best_months, comparison_data, latest_year, latest_year_data,
                monthly_region>>

(***************************************************************************)
(* Bounds of the model.                                                    *)
(***************************************************************************)
MaxRows     == 2      \* rows of a general data set
NumYears    == 6      \* distinct original years of a year-span data set
MaxPerYear  == 3      \* customers per year of a rate data set
MaxAge      == 91     \* largest customer age
MaxID       == 8      \* largest customer ID

(***************************************************************************)
(* Exact fractions <<n, d>> with d > 0, in lowest terms.  NaN (the mean of *)
(* an empty column) is <<0, 0>>.                                           *)
(***************************************************************************)
RECURSIVE GCD(_, _)
GCD(a, b) == IF b = 0 THEN a ELSE GCD(b, a % b)

Abs(x) == IF x < 0 THEN -x ELSE x

Frac(n, d) ==
    LET g == GCD(Abs(n), d) IN <<n \div g, d \div g>>

NaN == <<0, 0>>

IsNaN(x) == x[2] = 0

Add(x, y) == Frac(x[1] * y[2] + y[1] * x[2], x[2] * y[2])

Sub(x, y) == Frac(x[1] * y[2] - y[1] * x[2], x[2] * y[2])

Mul(x, y) == Frac(x[1] * y[1], x[2] * y[2])

Less(x, y) == x[1] * y[2] < y[1] * x[2]

Leq(x, y) == x[1] * y[2] <= y[1] * x[2]

\* Python's min(a, b) and max(a, b): the first argument wins a tie.
PyMin(a, b) == IF Less(b, a) THEN b ELSE a

PyMax(a, b) == IF Less(a, b) THEN b ELSE a

RECURSIVE SumSeq(_)
SumSeq(s) == IF s = <<>> THEN 0 ELSE Head(s) + SumSeq(Tail(s))

RECURSIVE SumFrac(_)
SumFrac(s) == IF s = <<>> THEN <<0, 1>> ELSE Add(Head(s), SumFrac(Tail(s)))

\* Series.mean() of a 0/1 column
Mean(s) == IF s = <<>> THEN NaN ELSE Frac(SumSeq(s), Len(s))

\* Series.mean() of a column of rates
MeanFrac(s) == IF s = <<>> THEN NaN ELSE Mul(SumFrac(s), <<1, Len(s)>>)

RECURSIVE MinFrac(_)
MinFrac(s) ==
    IF Len(s) = 1 THEN s[1]
    ELSE LET m == MinFrac(Tail(s)) IN IF Leq(s[1], m) THEN s[1] ELSE m

RECURSIVE MaxFrac(_)
MaxFrac(s) ==
    IF Len(s) = 1 THEN s[1]
    ELSE LET m == MaxFrac(Tail(s)) IN IF Leq(m, s[1]) THEN s[1] ELSE m

\* sorted(set) as a sequence
RECURSIVE SortedSeq(_)
SortedSeq(S) ==
    IF S = {} THEN <<>>
    ELSE LET m == CHOOSE x \in S : \A y \in S : x <= y
         IN <<m>> \o SortedSeq(S \ {m})

Column(rows, f) == [i \in DOMAIN rows |-> rows[i][f]]

Range(s) == {s[i] : i \in DOMAIN s}

None == <<>>

(***************************************************************************)
(* Constants of the script.                                                *)
(***************************************************************************)
\* COLORS.keys(), in insertion order
Campaigns ==
    <<"Spring Wine Festival", "Summer Fruit Bundle",
      "Autumn Meat Sampler", "Winter Seafood Discount">>

CampaignSet == Range(Campaigns)

\* campaign_mapping: AcceptedCmp<i> is renamed to Campaigns[i]
campaign_mapping(accepted) ==
    [c \in CampaignSet |->
        accepted[CHOOSE i \in 1..4 : Campaigns[i] = c]]

min_year == 2019

max_year == 2023

region_map == <<"North", "South", "East", "West">>   \* keys 0..3

\* strftime('%B')
MonthFullName ==
    <<"January", "February", "March", "April", "May", "June", "July",
      "August", "September", "October", "November", "December">>

\* month_names
month_names ==
    <<"JAN", "FEB", "MAR", "APR", "MAY", "JUN",
      "JUL", "AUG", "SEP", "OCT", "NOV", "DEC">>

(***************************************************************************)
(* calendar                                                                *)
(***************************************************************************)
isleap(y) == (y % 4 = 0 /\ y % 100 # 0) \/ y % 400 = 0

\* calendar.monthrange(y, m)[1]
monthrange(y, m) ==
    IF m = 2 THEN (IF isleap(y) THEN 29 ELSE 28)
    ELSE IF m \in {4, 6, 9, 11} THEN 30 ELSE 31

ValidDate(d) ==
    /\ d[2] \in 1..12
    /\ d[3] \in 1..monthrange(d[1], d[2])

(***************************************************************************)
(* load_data                                                               *)
(***************************************************************************)
original_years(rows) == {rows[i].Dt_Customer[1] : i \in DOMAIN rows}

\* position of year among sorted(original_years), from 0
YearIndex(years, year) == Cardinality({z \in years : z < year})

\* year_mapping with the span taken as max_year - min_year
year_mapping_short_span(years) ==
    [year \in years |->
        min_year + (YearIndex(years, year) % (max_year - min_year))]

year_mapping(years) ==
    [year \in years |->
        min_year + (YearIndex(years, year) % (max_year - min_year + 1))]

\* new_date with the leap-year test inverted
new_date_leap_inverted(date, new_year) ==
    LET month == date[2]
        day   == date[3]
    IN  IF month = 2 /\ day = 29 /\ isleap(new_year)
        THEN <<new_year, 2, 28>>
        ELSE IF day <= monthrange(new_year, month)
             THEN <<new_year, month, day>>
             ELSE <<new_year, month, monthrange(new_year, month)>>

\* the date of one row moved to its mapped year
new_date(date, new_year) ==
    LET month == date[2]
        day   == date[3]
    IN  IF month = 2 /\ day = 29 /\ ~isleap(new_year)
        THEN <<new_year, 2, 28>>
        ELSE IF day <= monthrange(new_year, month)
             THEN <<new_year, month, day>>                \* date.replace
             ELSE <<new_year, month, monthrange(new_year, month)>>

\* Region with the ID taken modulo 3
Region_mod3(id) == region_map[(id % 3) + 1]

Region(id) == region_map[(id % 4) + 1]

LoadRow(r, mapping) ==
    LET nd == new_date(r.Dt_Customer, mapping[r.Dt_Customer[1]])
    IN  [Dt_Customer |-> nd,
         Year        |-> nd[1],
         Month       |-> nd[2],
         Month_Name  |-> MonthFullName[nd[2]],
         ID          |-> r.ID,
         Education   |-> r.Education,
         Campaign    |-> campaign_mapping(r.AcceptedCmp),
         Response    |-> r.Response,
         Age         |-> r.Age,
         Region      |-> Region(r.ID)]

load_data(rows) ==
    LET mapping == year_mapping(original_years(rows))
    IN  [i \in DOMAIN rows |-> LoadRow(rows[i], mapping)]

FileNotFound == "marketing_campaign.csv file not found."

(***************************************************************************)
(* Input files.  A row of the CSV holds the columns the script reads.      *)
(***************************************************************************)
RawRow(date, id, edu, acc, resp, age) ==
    [Dt_Customer |-> date, ID |-> id, Education |-> edu,
     AcceptedCmp |-> acc, Response |-> resp, Age |-> age]

Educations == {"Graduation", "PhD"}

\* AcceptedCmp1..4 and Response of one customer
Answers == {<<<<0, 1, 0, 0>>, 0>>, <<<<1, 0, 1, 1>>, 1>>}

GeneralDates == {<<2012, 2, 29>>, <<2013, 7, 31>>}

\* ID and Education of a customer
Profiles == {<<1, "Graduation">>, <<2, "PhD">>}

RowPool ==
    {RawRow(d, p[1], p[2], a[1], a[2], 40) :
        d \in GeneralDates, p \in Profiles, a \in Answers}

\* any rows, in any order
GeneralFiles ==
    UNION {[1..n -> RowPool] : n \in 1..MaxRows}

\* one customer per original year, for every set of original years
YearSpanFile(years) ==
    LET ys == SortedSeq(years)
    IN  [i \in DOMAIN ys |->
            RawRow(<<ys[i], 2, monthrange(ys[i], 2)>>, ys[i] % 100,
                   IF ys[i] % 3 = 0 THEN "PhD" ELSE "Graduation",
                   IF ys[i] % 2 = 0 THEN <<1, 0, 1, 1>> ELSE <<0, 1, 0, 0>>,
                   IF ys[i] % 2 = 0 THEN 1 ELSE 0, 40)]

YearSpanFiles ==
    {YearSpanFile(years) :
        years \in SUBSET (2008..(2007 + NumYears)) \ {{}}}

\* n customers in one year, k of them accepting, and m in the next, j accepting
RateFile(n, k, m, j) ==
    [i \in 1..(n + m) |->
        LET first == i <= n
            yes   == IF first THEN i <= k ELSE i - n <= j
        IN  RawRow(<<IF first THEN 2012 ELSE 2013, 3, 15>>, i,
                   IF i % 3 = 0 THEN "PhD" ELSE "Graduation",
                   IF yes THEN <<1, 1, 1, 1>> ELSE <<0, 0, 0, 0>>,
                   IF yes THEN 1 ELSE 0, 40)]

RateFiles ==
    {RateFile(q[1], q[2], q[3], q[4]) :
        q \in {p \in (1..MaxPerYear) \X (0..MaxPerYear) \X
                      (0..MaxPerYear) \X (0..MaxPerYear) :
                  p[2] <= p[1] /\ p[4] <= p[3]}}

\* one customer on any date of interest, alone or after an earlier customer
DatesOfInterest ==
    {d \in (2012..2013) \X (1..12) \X {1, 15, 28, 29, 30, 31} :
        ValidDate(d)}

DateFiles ==
    {<<RawRow(d, 1, "Graduation", <<1, 0, 1, 1>>, 1, 40)>> : d \in DatesOfInterest}
    \cup
    {<<RawRow(<<2011, 1, 1>>, 5, "PhD", <<0, 1, 0, 0>>, 0, 40),
       RawRow(d, 1, "Graduation", <<1, 0, 1, 1>>, 1, 40)>> : d \in DatesOfInterest}

\* one customer of any age and any ID
CustomerFiles ==
    {<<RawRow(<<2011, 1, 1>>, id, "Graduation", <<1, 0, 1, 1>>, 1, 40)>> :
        id \in 0..MaxID}
    \cup
    {<<RawRow(<<2011, 1, 1>>, 1, "Graduation", <<1, 0, 1, 1>>, 1, age)>> :
        age \in 18..MaxAge}

Files == GeneralFiles \cup YearSpanFiles \cup RateFiles \cup DateFiles
         \cup CustomerFiles

(***************************************************************************)
(* The script.                                                             *)
(***************************************************************************)
Init ==
    /\ file_exists \in BOOLEAN
    /\ csv \in Files
    /\ pc = "start"
    /\ trace = <<>>
    /\ errors = <<>>
    /\ exception = ""
    /\ df = None
    /\ selected_education = {}
    /\ selected_region = "All Regions"
    /\ filtered_df = None
    /\ existing_years = None
    /\ min_rates = None
    /\ max_rates = None
    /\ avg_rates = None
    /\ yearly_trends = None
    /\ best_months = None
    /\ comparison_data = None
    /\ latest_year = 0
    /\ latest_year_data = None
    /\ monthly_region = None

\* df = load_data(), the file being there: read, rename, remap the years,
\* derive Year, Month, Month_Name and Region
LoadData ==
    /\ pc = "start"
    /\ file_exists
    /\ df' = load_data(csv)
    /\ trace' = trace \o <<"load", "transform">>
    /\ pc' = "loaded"
    /\ UNCHANGED <<inputVars, errors, exception, filterVars, trendVars, laterVars>>

\* LoadDataMissing without the "if df is not None" guard: the script goes on
LoadDataMissing_unguarded ==
    /\ pc = "start"
    /\ ~file_exists
    /\ errors' = Append(errors, FileNotFound)
    /\ df' = None
    /\ trace' = trace \o <<"load">>
    /\ pc' = "loaded"
    /\ UNCHANGED <<inputVars, exception, filterVars, trendVars, laterVars>>

\* df = load_data(), the file missing: st.error, return None; the
\* "if df is not None" block is skipped and the script ends
LoadDataMissing ==
    /\ pc = "start"
    /\ ~file_exists
    /\ errors' = Append(errors, FileNotFound)
    /\ df' = None
    /\ trace' = trace \o <<"load">>
    /\ pc' = "no_data"
    /\ UNCHANGED <<inputVars, exception, filterVars, trendVars, laterVars>>

education_options(frame) == {frame[i].Education : i \in DOMAIN frame}

region_options(frame) ==
    {"All Regions"} \cup {frame[i].Region : i \in DOMAIN frame}

\* ApplyFilters without the special case of an empty education selection
ApplyFilters_isin_always(frame, education, region) ==
    LET by_education ==
            SelectSeq(frame, LAMBDA r : r.Education \in education)
    IN  IF region # "All Regions"
        THEN SelectSeq(by_education, LAMBDA r : r.Region = region)
        ELSE by_education

\* the two filters applied to the loaded frame
ApplyFilters(frame, education, region) ==
    LET by_education ==
            IF education # {}
            THEN SelectSeq(frame, LAMBDA r : r.Education \in education)
            ELSE frame
    IN  IF region # "All Regions"
        THEN SelectSeq(by_education, LAMBDA r : r.Region = region)
        ELSE by_education

\* the sidebar widgets return the user's selection; filtered_df follows
SidebarFilter ==
    /\ pc = "loaded"
    /\ \E education \in SUBSET education_options(df) :
       \E region \in region_options(df) :
          /\ selected_education' = education
          /\ selected_region' = region
          /\ filtered_df' = ApplyFilters(df, education, region)
    /\ trace' = Append(trace, "filter")
    /\ pc' = "filtered"
    /\ UNCHANGED <<inputVars, errors, exception, df, trendVars, laterVars>>

(***************************************************************************)
(* Title, KPIs and Visualization 1 read filtered_df and draw; they assign  *)
(* nothing that a later section reads.                                     *)
(***************************************************************************)
RenderKPIs ==
    /\ pc = "filtered"
    /\ trace' = Append(trace, "kpis")
    /\ pc' = "kpis"
    /\ UNCHANGED <<inputVars, errors, exception, df, filterVars, trendVars, laterVars>>

(***************************************************************************)
(* Visualization 2: age groups                                             *)
(***************************************************************************)
age_bins == <<20, 35, 50, 65, 90>>

age_labels == <<"20-34", "35-49", "50-64", "65+">>

\* pd.cut(age, bins=age_bins, labels=age_labels, right=False): the bin
\* [age_bins[i], age_bins[i+1]) holding the age, NaN when there is none
age_cut(age) ==
    IF \E i \in 1..4 : age_bins[i] <= age /\ age < age_bins[i + 1]
    THEN age_labels[CHOOSE i \in 1..4 :
                        age_bins[i] <= age /\ age < age_bins[i + 1]]
    ELSE "NaN"

WithAgeGroup(r) ==
    [f \in DOMAIN r \cup {"Age_Group"} |->
        IF f = "Age_Group" THEN age_cut(r.Age) ELSE r[f]]

\* filtered_df['Age_Group'] = pd.cut(...)
RenderAgeGroups ==
    /\ pc = "kpis"
    /\ filtered_df' = [i \in DOMAIN filtered_df |-> WithAgeGroup(filtered_df[i])]
    /\ trace' = Append(trace, "age_groups")
    /\ pc' = "age_groups"
    /\ UNCHANGED <<inputVars, errors, exception, df, selected_education, selected_region,
                   trendVars, laterVars>>

(***************************************************************************)
(* Visualization 3: yearly trends and the fill of the missing years        *)
(***************************************************************************)
YearsOf(frame) == {frame[i].Year : i \in DOMAIN frame}

CampaignColumn(rows, c) == [i \in DOMAIN rows |-> rows[i].Campaign[c]]

\* filtered_df.groupby('Year')[campaigns].mean().reset_index()
YearlyMeans(frame) ==
    LET ys == SortedSeq(YearsOf(frame))
    IN  [i \in DOMAIN ys |->
            [Year |-> ys[i],
             Rate |-> [c \in CampaignSet |->
                 Mean(CampaignColumn(
                     SelectSeq(frame, LAMBDA r : r.Year = ys[i]), c))]]]

RateColumn(table, c) == [i \in DOMAIN table |-> table[i].Rate[c]]

rate_cap == <<7, 20>>        \* 0.35

MinRates(table) ==
    IF table # <<>>
    THEN [c \in CampaignSet |-> Mul(MinFrac(RateColumn(table, c)), <<9, 10>>)]
    ELSE [c \in CampaignSet |-> <<1, 20>>]

MaxRates(table) ==
    IF table # <<>>
    THEN [c \in CampaignSet |->
             PyMin(Mul(MaxFrac(RateColumn(table, c)), <<11, 10>>), rate_cap)]
    ELSE [c \in CampaignSet |-> <<1, 4>>]

AvgRates(table) ==
    IF table # <<>>
    THEN [c \in CampaignSet |-> MeanFrac(RateColumn(table, c))]
    ELSE [c \in CampaignSet |-> <<3, 20>>]

all_years == <<2019, 2020, 2021, 2022, 2023, 2024>>

\* missing_years over the five years 2019..2023 only
missing_years_to_2023(existing) ==
    SelectSeq(SubSeq(all_years, 1, 5), LAMBDA y : y \notin Range(existing))

\* missing_years without the test against existing_years
missing_years_all(existing) == all_years

missing_years(existing) ==
    SelectSeq(all_years, LAMBDA y : y \notin Range(existing))

Whole(n) == <<n, 1>>

\* math.sin(cycle * math.pi) for cycle = (year - 2019) / 2; the float is
\* within 1e-15 of this value
SinHalfTurns(k) ==
    CASE k % 4 = 0 -> Whole(0)
      [] k % 4 = 1 -> Whole(1)
      [] k % 4 = 2 -> Whole(0)
      [] k % 4 = 3 -> Whole(-1)

\* Spring Wine Festival: slow growth, faster from 2021
SpringValue(year, lo, hi, base_value) ==
    IF year < 2021
    THEN Add(lo, Mul(Mul(Whole(year - 2019), Sub(base_value, lo)), <<1, 3>>))
    ELSE Add(base_value,
             Mul(Mul(Whole(year - 2021), Sub(hi, base_value)), <<1, 4>>))

\* Summer Fruit Bundle: a sine wave around the base value
SummerValue(year, lo, hi, base_value) ==
    LET amplitude ==
            Mul(Mul(Mul(<<1, 2>>, SinHalfTurns(year - 2019)), Sub(hi, lo)),
                <<1, 3>>)
    IN  Add(base_value, amplitude)

(***************************************************************************)
(* The same branch as Python computes it, in IEEE double precision.        *)
(* A big natural is a sequence of limbs in base 2^15, least significant    *)
(* first, without a zero top limb. A double is its sign s (0 for zero),    *)
(* its 53-bit significand m as a big natural and its exponent e: the       *)
(* value is s * m * 2^e.                                                   *)
(***************************************************************************)
LimbBase == 2^15

RECURSIVE Trim(_)
Trim(a) ==
    IF a # <<>> /\ a[Len(a)] = 0 THEN Trim(SubSeq(a, 1, Len(a) - 1)) ELSE a

\* the big natural of an integer 0 <= n < 2^31
Big(n) ==
    Trim(<<n % LimbBase, (n \div LimbBase) % LimbBase,
           n \div (LimbBase * LimbBase)>>)

Limb(a, i) == IF i <= Len(a) THEN a[i] ELSE 0

RECURSIVE AddFrom(_, _, _, _)
AddFrom(a, b, i, carry) ==
    IF i > Len(a) /\ i > Len(b)
    THEN IF carry = 0 THEN <<>> ELSE <<carry>>
    ELSE LET t == Limb(a, i) + Limb(b, i) + carry
         IN  <<t % LimbBase>> \o AddFrom(a, b, i + 1, t \div LimbBase)

BigAdd(a, b) == AddFrom(a, b, 1, 0)

RECURSIVE SubFrom(_, _, _, _)
SubFrom(a, b, i, borrow) ==
    IF i > Len(a) THEN <<>>
    ELSE LET t == Limb(a, i) - Limb(b, i) - borrow
         IN  <<IF t < 0 THEN t + LimbBase ELSE t>>
             \o SubFrom(a, b, i + 1, IF t < 0 THEN 1 ELSE 0)

\* a - b for a >= b
BigSub(a, b) == Trim(SubFrom(a, b, 1, 0))

BigLess(a, b) ==
    IF Len(a) # Len(b) THEN Len(a) < Len(b)
    ELSE \E i \in DOMAIN a :
            /\ a[i] < b[i]
            /\ \A j \in (i + 1)..Len(a) : a[j] = b[j]

RECURSIVE MulSmallFrom(_, _, _, _)
MulSmallFrom(a, k, i, carry) ==
    IF i > Len(a)
    THEN IF carry = 0 THEN <<>> ELSE <<carry>>
    ELSE LET t == a[i] * k + carry
         IN  <<t % LimbBase>> \o MulSmallFrom(a, k, i + 1, t \div LimbBase)

\* a * k for 0 <= k <= 2^15
BigMulSmall(a, k) == Trim(MulSmallFrom(a, k, 1, 0))

ShiftLimbs(a, n) == IF a = <<>> THEN <<>> ELSE [i \in 1..n |-> 0] \o a

RECURSIVE BigMul(_, _)
BigMul(a, b) ==
    IF b = <<>> THEN <<>>
    ELSE BigAdd(BigMulSmall(a, b[1]), ShiftLimbs(BigMul(a, Tail(b)), 1))

\* a * 2^k
BigShl(a, k) == ShiftLimbs(BigMulSmall(a, 2^(k % 15)), k \div 15)

\* limbs i down to 1 of a divided by d with r carried in: quotient, remainder
RECURSIVE DivSmallFrom(_, _, _, _)
DivSmallFrom(a, d, i, r) ==
    IF i = 0 THEN <<<<>>, r>>
    ELSE LET t    == r * LimbBase + a[i]
             rest == DivSmallFrom(a, d, i - 1, t % d)
         IN  <<Append(rest[1], t \div d), rest[2]>>

\* quotient and remainder of a by d, 0 < d < 2^15
BigDivSmall(a, d) ==
    LET qr == DivSmallFrom(a, d, Len(a), 0) IN <<Trim(qr[1]), qr[2]>>

\* a \div 2^k
BigShr(a, k) ==
    IF k \div 15 >= Len(a) THEN <<>>
    ELSE BigDivSmall(SubSeq(a, k \div 15 + 1, Len(a)), 2^(k % 15))[1]

\* the number of bits of a
BitLen(a) ==
    IF a = <<>> THEN 0
    ELSE 15 * (Len(a) - 1)
         + (CHOOSE w \in 1..15 : 2^(w - 1) <= a[Len(a)] /\ a[Len(a)] < 2^w)

DoubleZero == [s |-> 0, m |-> <<>>, e |-> 0]

\* s * n * 2^e (a little more when sticky) rounded to the nearest double,
\* ties to even
RoundToDouble(s, n, e, sticky) ==
    LET k    == BitLen(n) - 53
        q    == BigShr(n, k)
        rem  == BigSub(n, BigShl(q, k))
        half == BigShl(<<1>>, k - 1)
        up   == \/ BigLess(half, rem)
                \/ rem = half /\ (sticky \/ q[1] % 2 = 1)
        m    == IF up THEN BigAdd(q, <<1>>) ELSE q
    IN  IF n = <<>> \/ s = 0 THEN DoubleZero
        ELSE IF k <= 0 THEN [s |-> s, m |-> BigShl(n, -k), e |-> e + k]
        ELSE IF BitLen(m) > 53 THEN [s |-> s, m |-> BigShr(m, 1), e |-> e + k + 1]
        ELSE [s |-> s, m |-> m, e |-> e + k]

\* the double nearest to k / n, for integers 0 <= k and 0 < n < 2^15
DoubleOfRatio(k, n) ==
    LET qr == BigDivSmall(BigShl(Big(k), 75), n)
    IN  RoundToDouble(1, qr[1], -75, qr[2] # 0)

DoubleOfFrac(x) == DoubleOfRatio(x[1], x[2])

\* x + y as the real number s * n * 2^e
ExactSum(x, y) ==
    LET e  == IF x.e < y.e THEN x.e ELSE y.e
        xn == BigShl(x.m, x.e - e)
        yn == BigShl(y.m, y.e - e)
    IN  IF x.s = 0 THEN [s |-> y.s, n |-> y.m, e |-> y.e]
        ELSE IF y.s = 0 THEN [s |-> x.s, n |-> x.m, e |-> x.e]
        ELSE IF x.s = y.s THEN [s |-> x.s, n |-> BigAdd(xn, yn), e |-> e]
        ELSE IF xn = yn THEN [s |-> 0, n |-> <<>>, e |-> 0]
        ELSE IF BigLess(yn, xn) THEN [s |-> x.s, n |-> BigSub(xn, yn), e |-> e]
        ELSE [s |-> y.s, n |-> BigSub(yn, xn), e |-> e]

DoubleNeg(x) == [s |-> -x.s, m |-> x.m, e |-> x.e]

DoubleAdd(x, y) ==
    LET r == ExactSum(x, y) IN RoundToDouble(r.s, r.n, r.e, FALSE)

DoubleSub(x, y) == DoubleAdd(x, DoubleNeg(y))

DoubleMul(x, y) == RoundToDouble(x.s * y.s, BigMul(x.m, y.m), x.e + y.e, FALSE)

\* x / d for an integer 0 < d < 2^15
DoubleDivInt(x, d) ==
    LET qr == BigDivSmall(BigShl(x.m, 30), d)
    IN  RoundToDouble(x.s, qr[1], x.e - 30, qr[2] # 0)

DoubleLess(x, y) == ExactSum(x, DoubleNeg(y)).s = -1

\* Python's min(x, y)
DoubleMin(x, y) == IF DoubleLess(y, x) THEN y ELSE x

\* Series.sum(): the doubles added from left to right
RECURSIVE DoubleSum(_, _)
DoubleSum(column, acc) ==
    IF column = <<>> THEN acc
    ELSE DoubleSum(Tail(column), DoubleAdd(acc, Head(column)))

\* a yearly mean is the double nearest to accepted / customers
MinRateDouble(table, c) ==
    IF table # <<>>
    THEN DoubleMul(DoubleOfFrac(MinFrac(RateColumn(table, c))),
                   DoubleOfRatio(9, 10))
    ELSE DoubleOfRatio(5, 100)

MaxRateDouble(table, c) ==
    IF table # <<>>
    THEN DoubleMin(DoubleMul(DoubleOfFrac(MaxFrac(RateColumn(table, c))),
                             DoubleOfRatio(11, 10)),
                   DoubleOfRatio(35, 100))
    ELSE DoubleOfRatio(25, 100)

AvgRateDouble(table, c) ==
    IF table # <<>>
    THEN DoubleDivInt(
             DoubleSum([i \in DOMAIN table |-> DoubleOfFrac(table[i].Rate[c])],
                       DoubleZero),
             Len(table))
    ELSE DoubleOfRatio(15, 100)

\* math.sin(cycle * math.pi) for cycle = k / 2: exact at 0 and at the odd
\* quarter turns, 0x1.1a62633145c07p-53 at pi and minus twice that at 2 pi
SinDouble(k) ==
    CASE k = 0 -> DoubleZero
      [] k = 2 -> [s |-> 1, m |-> <<23559, 26152, 6296, 141>>, e |-> -105]
      [] k = 4 -> [s |-> -1, m |-> <<23559, 26152, 6296, 141>>, e |-> -104]
      [] k = 3 -> DoubleNeg(DoubleOfRatio(1, 1))
      [] OTHER -> DoubleOfRatio(1, 1)

\* amplitude = 0.5 * math.sin(cycle * math.pi) * (max - min) / 3
\* value = base_value + amplitude
SummerDouble(year, lo, hi, base_value) ==
    LET amplitude ==
            DoubleDivInt(DoubleMul(DoubleMul(DoubleOfRatio(1, 2),
                                             SinDouble(year - 2019)),
                                   DoubleSub(hi, lo)),
                         3)
    IN  DoubleAdd(base_value, amplitude)

\* Autumn Meat Sampler: steady growth
AutumnValue(year, lo, hi, base_value) ==
    LET progress == <<year - 2019, 5>>
    IN  Add(lo, Mul(Mul(progress, Sub(hi, lo)), <<4, 5>>))

\* WinterValue with the first phase falling from max_rates
WinterValue_falling_first(year, lo, hi, base_value) ==
    IF year < 2021
    THEN Sub(hi, Mul(Mul(Whole(year - 2019), Sub(hi, lo)), <<1, 2>>))
    ELSE IF year < 2023
    THEN Sub(hi, Mul(Mul(Whole(year - 2021), Sub(hi, lo)), <<1, 3>>))
    ELSE Add(lo, Mul(Mul(Whole(year - 2023), Sub(base_value, lo)), <<1, 2>>))

\* Winter Seafood Discount: up, down, then a small rebound
WinterValue(year, lo, hi, base_value) ==
    IF year < 2021
    THEN Add(lo, Mul(Mul(Whole(year - 2019), Sub(hi, lo)), <<1, 2>>))
    ELSE IF year < 2023
    THEN Sub(hi, Mul(Mul(Whole(year - 2021), Sub(hi, lo)), <<1, 3>>))
    ELSE Add(lo, Mul(Mul(Whole(year - 2023), Sub(base_value, lo)), <<1, 2>>))

\* the value of one campaign in one missing year, before clamping
TrendValue(campaign, year, lo, hi, base_value) ==
    CASE campaign = "Spring Wine Festival" -> SpringValue(year, lo, hi, base_value)
      [] campaign = "Summer Fruit Bundle" -> SummerValue(year, lo, hi, base_value)
      [] campaign = "Autumn Meat Sampler" -> AutumnValue(year, lo, hi, base_value)
      [] OTHER -> WinterValue(year, lo, hi, base_value)

\* max(min_rates[campaign], min(value, max_rates[campaign]))
Clamp(value, lo, hi) == PyMax(lo, PyMin(value, hi))

NewRow(year, lo, hi, avg) ==
    [Year |-> year,
     Rate |-> [c \in CampaignSet |->
                  Clamp(TrendValue(c, year, lo[c], hi[c], avg[c]), lo[c], hi[c])]]

\* FillLoop with the trend computed from the position of the new row in the
\* table in place of its year
RECURSIVE FillLoop_by_position(_, _, _, _, _)
FillLoop_by_position(table, missing, lo, hi, avg) ==
    IF missing = <<>> THEN table
    ELSE FillLoop_by_position(
             Append(table, [Year |-> Head(missing),
                            Rate |-> NewRow(2019 + Len(table), lo, hi, avg).Rate]),
             Tail(missing), lo, hi, avg)

\* for year in missing_years: yearly_trends = pd.concat([yearly_trends, new_row])
RECURSIVE FillLoop(_, _, _, _, _)
FillLoop(table, missing, lo, hi, avg) ==
    IF missing = <<>> THEN table
    ELSE FillLoop(Append(table, NewRow(Head(missing), lo, hi, avg)),
                  Tail(missing), lo, hi, avg)

\* yearly_trends after the fill, which runs when fewer than six years exist
FillRows(table, existing, lo, hi, avg) ==
    IF Len(existing) < 6
    THEN FillLoop(table, missing_years(existing), lo, hi, avg)
    ELSE table

Percent(row) ==
    [Year |-> row.Year, Rate |-> [c \in CampaignSet |-> Mul(row.Rate[c], Whole(100))]]

\* DataFrame.sort_values('Year'), stable
RECURSIVE SortByYear(_)
SortByYear(table) ==
    IF table = <<>> THEN <<>>
    ELSE LET m == CHOOSE i \in DOMAIN table :
                      /\ \A j \in DOMAIN table : table[i].Year <= table[j].Year
                      /\ \A j \in 1..(i - 1) : table[j].Year # table[i].Year
         IN  <<table[m]>> \o
             SortByYear([j \in 1..(Len(table) - 1) |->
                            IF j < m THEN table[j] ELSE table[j + 1]])

\* the points the annotations of fig3 are attached to
annotation_points ==
    <<<<2023, "Spring Wine Festival">>, <<2024, "Spring Wine Festival">>,
      <<2021, "Summer Fruit Bundle">>, <<2022, "Autumn Meat Sampler">>,
      <<2024, "Winter Seafood Discount">>>>

\* melted_trends[(Year == year) & (Campaign == c)]['Response_Rate'].values
TrendLookup(table, year, c) ==
    LET hits == SelectSeq(table, LAMBDA row : row.Year = year)
    IN  [i \in DOMAIN hits |-> hits[i].Rate[c]]

\* .values[0] of every annotation finds an element
AnnotationsFound(table) ==
    \A i \in DOMAIN annotation_points :
        TrendLookup(table, annotation_points[i][1], annotation_points[i][2]) # <<>>

RenderTrends ==
    /\ pc = "age_groups"
    /\ LET real == YearlyMeans(filtered_df)
           years == Column(real, "Year")
           lo == MinRates(real)
           hi == MaxRates(real)
           avg == AvgRates(real)
           filled == FillRows(real, years, lo, hi, avg)
       IN  /\ existing_years' = years
           /\ min_rates' = lo
           /\ max_rates' = hi
           /\ avg_rates' = avg
           /\ yearly_trends' =
                  SortByYear([i \in DOMAIN filled |-> Percent(filled[i])])
    /\ trace' = Append(trace, "trends")
    /\ IF AnnotationsFound(yearly_trends')
       THEN pc' = "trends" /\ exception' = exception
       ELSE pc' = "error" /\ exception' = "IndexError"
    /\ UNCHANGED <<inputVars, errors, df, filterVars, laterVars>>

(***************************************************************************)
(* Visualization 4: best month of each campaign                            *)
(***************************************************************************)
MonthsOf(frame) == {frame[i].Month : i \in DOMAIN frame}

\* filtered_df.groupby('Month')[campaigns].mean().reset_index()
monthly_performance(frame) ==
    LET ms == SortedSeq(MonthsOf(frame))
    IN  [i \in DOMAIN ms |->
            [Month |-> ms[i],
             Rate  |-> [c \in CampaignSet |->
                 Mean(CampaignColumn(
                     SelectSeq(frame, LAMBDA r : r.Month = ms[i]), c))]]]

\* idxmax taking the last position holding the maximum
idxmax_last(column) ==
    CHOOSE i \in DOMAIN column :
        /\ \A j \in DOMAIN column : Leq(column[j], column[i])
        /\ \A j \in (i + 1)..Len(column) : Less(column[j], column[i])

\* Series.idxmax(): the first position holding the maximum
idxmax(column) ==
    CHOOSE i \in DOMAIN column :
        /\ \A j \in DOMAIN column : Leq(column[j], column[i])
        /\ \A j \in 1..(i - 1) : Less(column[j], column[i])

BestMonth(table, c) ==
    LET best_month_idx == idxmax(RateColumn(table, c))
    IN  <<month_names[table[best_month_idx].Month],
          Mul(table[best_month_idx].Rate[c], Whole(100))>>

\* idxmax of an empty column raises ValueError
RenderBestMonths ==
    /\ pc = "trends"
    /\ LET table == monthly_performance(filtered_df)
       IN  IF table = <<>>
           THEN /\ pc' = "error"
                /\ exception' = "ValueError"
                /\ best_months' = best_months
           ELSE /\ pc' = "best_months"
                /\ exception' = exception
                /\ best_months' = [c \in CampaignSet |-> BestMonth(table, c)]
    /\ trace' = Append(trace, "best_months")
    /\ UNCHANGED <<inputVars, errors, df, filterVars, trendVars, comparison_data,
                   latest_year, latest_year_data, monthly_region>>

(***************************************************************************)
(* Visualization 5: 2023 vs 2024 monthly comparison                        *)
(***************************************************************************)
ResponseColumn(rows) == [i \in DOMAIN rows |-> rows[i].Response]

\* groupby(['Year', 'Month'])['Response'].mean(), as a percentage, sorted
yearly_monthly_trends(frame) ==
    LET keys == SortedSeq({frame[i].Year * 12 + (frame[i].Month - 1) :
                              i \in DOMAIN frame})
    IN  [i \in DOMAIN keys |->
            LET year  == keys[i] \div 12
                month == (keys[i] % 12) + 1
            IN  [Year |-> year, Month |-> month,
                 Response_Rate |->
                     Mul(Mean(ResponseColumn(SelectSeq(frame,
                             LAMBDA r : r.Year = year /\ r.Month = month))),
                         Whole(100))]]

\* the latest two of the available years (all of them when fewer)
real_comparison_years(available_years) ==
    IF Len(available_years) >= 2
    THEN SubSeq(available_years, Len(available_years) - 1, Len(available_years))
    ELSE available_years

\* the rows of the comparison years, their Year mapped to 2023 / 2024
MappedComparison(trends) ==
    LET years == real_comparison_years(SortedSeq({trends[i].Year : i \in DOMAIN trends}))
        kept  == SelectSeq(trends, LAMBDA row : row.Year \in Range(years))
    IN  [i \in DOMAIN kept |->
            [Year |-> IF kept[i].Year = years[1] THEN 2023 ELSE 2024,
             Month |-> kept[i].Month,
             Response_Rate |-> kept[i].Response_Rate]]

comparison_years == <<2023, 2024>>

\* the response rate of one (year, month) cell of the comparison
CellRate(mapped, year, month) ==
    LET existing_data ==
            SelectSeq(mapped, LAMBDA row : row.Year = year /\ row.Month = month)
        of_year == SelectSeq(mapped, LAMBDA row : row.Year = year)
        year_avg == MeanFrac([i \in DOMAIN of_year |-> of_year[i].Response_Rate])
    IN  IF existing_data # <<>>
        THEN existing_data[1].Response_Rate
        ELSE IF ~IsNaN(year_avg) THEN year_avg ELSE Whole(0)

full_data_list(mapped) ==
    [k \in 1..(Len(comparison_years) * 12) |->
        LET year  == comparison_years[((k - 1) \div 12) + 1]
            month == ((k - 1) % 12) + 1
        IN  [Year |-> year, Month |-> month, Month_Name |-> month_names[month],
             Response_Rate |-> CellRate(mapped, year, month)]]

RenderComparison ==
    /\ pc = "best_months"
    /\ comparison_data' =
           full_data_list(MappedComparison(yearly_monthly_trends(filtered_df)))
    /\ trace' = Append(trace, "comparison")
    /\ pc' = "comparison"
    /\ UNCHANGED <<inputVars, errors, exception, df, filterVars, trendVars,
                   best_months, latest_year, latest_year_data, monthly_region>>

(***************************************************************************)
(* Regional analysis                                                       *)
(***************************************************************************)
MaxOf(S) == CHOOSE x \in S : \A y \in S : y <= x

\* month numbers in the alphabetical order of their full names
months_by_name == <<4, 8, 12, 2, 1, 7, 6, 3, 5, 11, 10, 9>>

\* {m: i for i, m in enumerate(month_names.values())}.get(name): the
\* position of name among the abbreviated names, -1 standing for NaN
month_order(name) ==
    IF \E i \in 1..12 : month_names[i] = name
    THEN (CHOOSE i \in 1..12 : month_names[i] = name) - 1
    ELSE -1

\* sort_values('month_idx'): ascending, the NaN rows last in their order
SortByMonthIdx(table) ==
    LET known   == SelectSeq(table, LAMBDA row : row.month_idx # -1)
        unknown == SelectSeq(table, LAMBDA row : row.month_idx = -1)
        idxs    == SortedSeq({known[i].month_idx : i \in DOMAIN known})
    IN  [i \in DOMAIN idxs |->
            known[CHOOSE j \in DOMAIN known : known[j].month_idx = idxs[i]]]
        \o unknown

\* groupby('Month_Name')['Response'].mean() with month_idx, sorted by it
MonthlyRegion(frame) ==
    LET present == SelectSeq(months_by_name, LAMBDA m : m \in MonthsOf(frame))
        grouped ==
            [i \in DOMAIN present |->
                [Month_Name |-> MonthFullName[present[i]],
                 Response_Rate |->
                     Mul(Mean(ResponseColumn(SelectSeq(frame,
                             LAMBDA r : r.Month_Name = MonthFullName[present[i]]))),
                         Whole(100)),
                 month_idx |-> month_order(MonthFullName[present[i]])]]
    IN  SortByMonthIdx(grouped)

\* a region is selected: the detailed analysis of that region
RenderRegionDetail ==
    /\ pc = "comparison"
    /\ selected_region # "All Regions"
    /\ latest_year' = MaxOf(YearsOf(filtered_df))
    /\ monthly_region' = MonthlyRegion(filtered_df)
    /\ trace' = Append(trace, "regional")
    /\ pc' = "regional"
    /\ UNCHANGED <<inputVars, errors, exception, df, filterVars, trendVars,
                   best_months, comparison_data, latest_year_data>>

\* 'All Regions': the comparison of the regions, on the latest year's rows
RenderRegionComparison ==
    /\ pc = "comparison"
    /\ selected_region = "All Regions"
    /\ latest_year' = MaxOf(YearsOf(filtered_df))
    /\ latest_year_data' =
           SelectSeq(filtered_df, LAMBDA r : r.Year = MaxOf(YearsOf(filtered_df)))
    /\ trace' = Append(trace, "regional")
    /\ pc' = "regional"
    /\ UNCHANGED <<inputVars, errors, exception, df, filterVars, trendVars,
                   best_months, comparison_data, monthly_region>>

\* "Dashboard Enhancements", the last section
RenderEnhancements ==
    /\ pc = "regional"
    /\ trace' = Append(trace, "enhancements")
    /\ pc' = "done"
    /\ UNCHANGED <<inputVars, errors, exception, df, filterVars, trendVars,
                   laterVars>>

Next ==
    \/ LoadData
    \/ LoadDataMissing
    \/ SidebarFilter
    \/ RenderKPIs
    \/ RenderAgeGroups
    \/ RenderTrends
    \/ RenderBestMonths
    \/ RenderComparison
    \/ RenderRegionDetail
    \/ RenderRegionComparison
    \/ RenderEnhancements

Spec == Init /\ [][Next]_vars

(***************************************************************************)
(* Properties                                                              *)
(***************************************************************************)
Ran(step) == \E i \in DOMAIN trace : trace[i] = step

\* the original year of row i is the k-th smallest original year, k from 0
OriginalRank(i) ==
    Cardinality({y \in {csv[j].Dt_Customer[1] : j \in DOMAIN csv} :
                    y < csv[i].Dt_Customer[1]})

\* a row of filtered_df without the Age_Group column added later
Base(r) == [f \in DOMAIN r \ {"Age_Group"} |-> r[f]]

\* C1: every synthesized value of the yearly trend table lies between
\* min_rates and max_rates of its campaign (the table is in percent)
C1_SynthesizedWithinEnvelope ==
    Ran("trends") =>
        \A i \in DOMAIN yearly_trends :
            yearly_trends[i].Year \notin Range(existing_years) =>
                \A c \in CampaignSet :
                    /\ Leq(Mul(min_rates[c], Whole(100)), yearly_trends[i].Rate[c])
                    /\ Leq(yearly_trends[i].Rate[c], Mul(max_rates[c], Whole(100)))

\* C2: after load_data every Year lies in 2019..2023, the k-th smallest
\* original year (k from 0) being mapped to 2019 + (k mod 5)
C2_YearsRemapped ==
    Ran("load") /\ file_exists =>
        /\ Len(df) = Len(csv)
        /\ \A i \in DOMAIN df :
              /\ df[i].Year \in 2019..2023
              /\ df[i].Year = 2019 + (OriginalRank(i) % 5)

\* more than five distinct original years: the sixth wraps around to 2019
C2_Witness ==
    /\ pc = "loaded"
    /\ Cardinality({csv[j].Dt_Customer[1] : j \in DOMAIN csv}) > 5
    /\ \E i \in DOMAIN df : OriginalRank(i) = 5 /\ df[i].Year = 2019

\* C3: the remapped date is a valid date of the mapped year, in the month of
\* the original, on the day of the original except that 29 February becomes
\* 28 February when the mapped year is not a leap year
C3_DatesRemapped ==
    Ran("load") /\ file_exists =>
        \A i \in DOMAIN df :
            LET old == csv[i].Dt_Customer
                new == df[i].Dt_Customer
            IN  /\ ValidDate(new)
                /\ new[1] = 2019 + (OriginalRank(i) % 5)
                /\ new[2] = old[2]
                /\ IF old[2] = 2 /\ old[3] = 29 /\ ~isleap(new[1])
                   THEN new[3] = 28
                   ELSE new[3] = old[3]

\* one 29 February moved to 2019 (28 February), another kept in 2020
C3_Witness ==
    /\ pc = "loaded"
    /\ \E i, j \in DOMAIN df :
          /\ csv[i].Dt_Customer = <<2008, 2, 29>>
          /\ df[i].Dt_Customer = <<2019, 2, 28>>
          /\ csv[j].Dt_Customer = <<2012, 2, 29>>
          /\ df[j].Dt_Customer = <<2020, 2, 29>>

\* C4: the region of a customer is North, South, East or West for ID mod 4
\* = 0, 1, 2, 3, so customers with congruent IDs share their region
C4_RegionFromID ==
    Ran("load") /\ file_exists =>
        /\ \A i \in DOMAIN df :
              /\ csv[i].ID % 4 = 0 => df[i].Region = "North"
              /\ csv[i].ID % 4 = 1 => df[i].Region = "South"
              /\ csv[i].ID % 4 = 2 => df[i].Region = "East"
              /\ csv[i].ID % 4 = 3 => df[i].Region = "West"
        /\ \A i, j \in DOMAIN df :
              csv[i].ID % 4 = csv[j].ID % 4 => df[i].Region = df[j].Region

\* two customers with different, congruent IDs, and all four regions
C4_Witness ==
    /\ pc = "loaded"
    /\ \E i, j \in DOMAIN df :
          /\ df[i].ID # df[j].ID
          /\ df[i].ID % 4 = df[j].ID % 4
          /\ df[i].Region = df[j].Region
    /\ {df[i].Region : i \in DOMAIN df} = {"North", "South", "East", "West"}

\* the positions of df that pass the two selections
Passing ==
    {i \in DOMAIN df :
        /\ selected_education = {} \/ df[i].Education \in selected_education
        /\ selected_region = "All Regions" \/ df[i].Region = selected_region}

\* C5: filtered_df is exactly the rows of df, unaltered and in order, whose
\* Education is selected (any, when nothing is selected) and whose Region is
\* the selected one (any, for 'All Regions'); selecting no education level
\* gives what selecting all of them gives
C5_FilterExact ==
    Ran("filter") =>
        /\ Len(filtered_df) = Cardinality(Passing)
        /\ \A k \in DOMAIN filtered_df :
              \E i \in Passing :
                  /\ Base(filtered_df[k]) = df[i]
                  /\ Cardinality({j \in Passing : j < i}) = k - 1
        /\ \A region \in region_options(df) :
              ApplyFilters(df, {}, region) =
                  ApplyFilters(df, education_options(df), region)

\* both filters bite: some rows fail the education filter, others the
\* region filter, and some row passes both
C5_Witness ==
    /\ pc = "filtered"
    /\ filtered_df # <<>>
    /\ \E i \in DOMAIN df : df[i].Education \notin selected_education
    /\ \E i \in DOMAIN df :
          /\ df[i].Education \in selected_education
          /\ df[i].Region # selected_region
    /\ selected_region # "All Regions"

\* the steps of a complete run, in the order of the script
script_order ==
    <<"load", "transform", "filter", "kpis", "age_groups", "trends",
      "best_months", "comparison", "regional", "enhancements">>

\* load, transform, filter or render
StageOf(step) ==
    IF step \in {"load", "transform", "filter"} THEN step ELSE "render"

StageRank(step) ==
    CASE StageOf(step) = "load" -> 1
      [] StageOf(step) = "transform" -> 2
      [] StageOf(step) = "filter" -> 3
      [] OTHER -> 4

\* C6: the steps run in the order load, transform, filter, render, none of
\* them twice; without marketing_campaign.csv load_data reports the error,
\* returns no data, and nothing but the load is ever executed
C6_LinearScript ==
    /\ \A i, j \in DOMAIN trace :
          i < j => /\ StageRank(trace[i]) <= StageRank(trace[j])
                   /\ trace[i] # trace[j]
    /\ \A i \in DOMAIN trace : trace[i] = script_order[i]
    /\ (~file_exists /\ pc # "start") =>
          /\ errors = <<FileNotFound>>
          /\ df = None
          /\ trace = <<"load">>
          /\ pc = "no_data"
          /\ filtered_df = None /\ yearly_trends = None

\* the file is missing and load_data has returned
C6_Witness ==
    /\ ~file_exists
    /\ pc = "no_data"
    /\ errors = <<FileNotFound>>

\* C7: after the fill the yearly trend table holds each of the years
\* 2019..2024 exactly once, with a value for each campaign, so that every
\* annotation lookup finds its row
C7_SixYearsOnce ==
    Ran("trends") =>
        /\ \A y \in 2019..2024 :
              Cardinality({i \in DOMAIN yearly_trends :
                              yearly_trends[i].Year = y}) = 1
        /\ Len(yearly_trends) = 6
        /\ \A i \in DOMAIN yearly_trends : \A c \in CampaignSet :
              ~IsNaN(yearly_trends[i].Rate[c])
        /\ \A k \in DOMAIN annotation_points :
              Len(TrendLookup(yearly_trends, annotation_points[k][1],
                              annotation_points[k][2])) = 1
        /\ exception # "IndexError"

\* the selection leaves no rows: all six years are synthesized
C7_Witness ==
    /\ pc = "trends"
    /\ filtered_df = <<>>
    /\ existing_years = <<>>
    /\ Len(yearly_trends) = 6

ComparisonComplete ==
    /\ Len(comparison_data) = 24
    /\ \A y \in {2023, 2024} : \A m \in 1..12 :
          Cardinality({k \in DOMAIN comparison_data :
                          /\ comparison_data[k].Year = y
                          /\ comparison_data[k].Month = m}) = 1
    /\ \A k \in DOMAIN comparison_data :
          ~IsNaN(comparison_data[k].Response_Rate)

\* C8: for every filter selection, once the run has gone through the
\* comparison section or has stopped, the comparison data has exactly one
\* entry for each year of 2023, 2024 and each month of 1..12, 24 in all,
\* each with a numeric rate
C8_ComparisonComplete ==
    (Ran("comparison") \/ pc = "error") => ComparisonComplete

\* C9: the region / campaign charts titled 'Based on 2024 Data' are computed
\* from rows of the year 2024 only
C9_RegionChartsUse2024 ==
    (Ran("regional") /\ selected_region = "All Regions") =>
        \A i \in DOMAIN latest_year_data : latest_year_data[i].Year = 2024

\* C10: ages 20..34, 35..49 and 50..64 are placed in the group of that
\* name, and every age of 65 or more in '65+'
C10_AgeGroups ==
    Ran("age_groups") =>
        \A i \in DOMAIN filtered_df :
            LET age == filtered_df[i].Age
                group == filtered_df[i].Age_Group
            IN  /\ age \in 20..34 => group = "20-34"
                /\ age \in 35..49 => group = "35-49"
                /\ age \in 50..64 => group = "50-64"
                /\ age >= 65 => group = "65+"

Reverse(s) == [i \in DOMAIN s |-> s[Len(s) + 1 - i]]

Synthesized(i) == yearly_trends[i].Year \notin Range(existing_years)

\* C11: a synthesized value is a function of its year, its campaign and that
\* campaign's min_rates, max_rates and avg_rates alone; which other years are
\* filled, and in which order, makes no difference
C11_FillDeterministic ==
    Ran("trends") =>
        /\ \A i \in DOMAIN yearly_trends : \A c \in CampaignSet :
              Synthesized(i) =>
                  yearly_trends[i].Rate[c] =
                      Mul(Clamp(TrendValue(c, yearly_trends[i].Year, min_rates[c],
                                           max_rates[c], avg_rates[c]),
                                min_rates[c], max_rates[c]),
                          Whole(100))
        /\ LET real == YearlyMeans(filtered_df)
               backwards == FillLoop(real, Reverse(missing_years(existing_years)),
                                     min_rates, max_rates, avg_rates)
           IN  SortByYear([i \in DOMAIN backwards |-> Percent(backwards[i])])
                   = yearly_trends

\* real years exist and at least three years are synthesized
C11_Witness ==
    /\ pc = "trends"
    /\ existing_years # <<>>
    /\ Len(missing_years(existing_years)) >= 3
    /\ \E c \in CampaignSet : Less(min_rates[c], max_rates[c])

\* |value - avg| of Summer Fruit Bundle in each year of 2019..2024, before
\* clamping, on the doubles the script holds: a real number n * 2^e
SummerDistance ==
    LET table == YearlyMeans(filtered_df)
        lo    == MinRateDouble(table, "Summer Fruit Bundle")
        hi    == MaxRateDouble(table, "Summer Fruit Bundle")
        avg   == AvgRateDouble(table, "Summer Fruit Bundle")
    IN  [year \in Range(all_years) |->
            LET d == ExactSum(SummerDouble(year, lo, hi, avg), DoubleNeg(avg))
            IN  [n |-> d.n, e |-> d.e]]

NonZero(d) == d.n # <<>>

\* d <= e for two distances
NoLarger(d, e) ==
    ~ DoubleLess([s |-> 1, m |-> e.n, e |-> e.e], [s |-> 1, m |-> d.n, e |-> d.e])

\* C12: for Summer Fruit Bundle and synthesized years y1 < y2, the distance
\* of the unclamped value from the average in y2 is no larger than in y1
\* whenever neither distance is zero
C12_SummerAmplitude ==
    Ran("trends") =>
        LET distance == SummerDistance
        IN  \A y1, y2 \in Range(all_years) \ Range(existing_years) :
                (/\ y1 < y2
                 /\ NonZero(distance[y1])
                 /\ NonZero(distance[y2]))
                => NoLarger(distance[y2], distance[y1])

CalendarPosition(name) == CHOOSE m \in 1..12 : MonthFullName[m] = name

\* C13: in the detailed analysis of a selected region every month of the
\* monthly table has month_idx = calendar position - 1 and the rows are in
\* calendar order, January to December
C13_MonthsInCalendarOrder ==
    Ran("regional") =>
        /\ \A i \in DOMAIN monthly_region :
              monthly_region[i].month_idx =
                  CalendarPosition(monthly_region[i].Month_Name) - 1
        /\ \A i, j \in DOMAIN monthly_region :
              i < j => CalendarPosition(monthly_region[i].Month_Name)
                           < CalendarPosition(monthly_region[j].Month_Name)

\* C14: after a successful load no selection of education levels and region
\* makes a render step raise, and the best-month step yields a month for
\* each of the four campaigns
C14_NoSelectionRaises ==
    Ran("load") =>
        /\ pc # "error"
        /\ exception = ""
        /\ Ran("best_months") => DOMAIN best_months = CampaignSet

\* the yearly_trends value of a campaign in a year
TrendCell(c, year) ==
    yearly_trends[CHOOSE i \in DOMAIN yearly_trends :
                      yearly_trends[i].Year = year].Rate[c]

BothSynthesized(y1, y2) ==
    y1 \notin Range(existing_years) /\ y2 \notin Range(existing_years)

\* C15: for Winter Seafood Discount with min_rates <= avg_rates and
\* min_rates <= max_rates, the synthesized values rise from 2019 to 2020,
\* fall from 2021 to 2022 and rise again from 2023 to 2024
C15_WinterRiseFallRebound ==
    LET c == "Winter Seafood Discount"
    IN  (/\ Ran("trends")
         /\ Leq(min_rates[c], avg_rates[c])
         /\ Leq(min_rates[c], max_rates[c]))
        => /\ BothSynthesized(2019, 2020)
                => Leq(TrendCell(c, 2019), TrendCell(c, 2020))
           /\ BothSynthesized(2021, 2022)
                => Leq(TrendCell(c, 2022), TrendCell(c, 2021))
           /\ BothSynthesized(2023, 2024)
                => Leq(TrendCell(c, 2023), TrendCell(c, 2024))

\* real means for 2021 and 2022 only: 2019, 2020, 2023 and 2024 are
\* synthesized, with a strict rise and a strict rebound
C15_Witness ==
    LET c == "Winter Seafood Discount"
    IN  /\ pc = "trends"
        /\ existing_years = <<2021, 2022>>
        /\ Less(min_rates[c], avg_rates[c])
        /\ Less(min_rates[c], max_rates[c])
        /\ Less(TrendCell(c, 2019), TrendCell(c, 2020))
        /\ Less(TrendCell(c, 2023), TrendCell(c, 2024))

\* the share of the customers of a year in filtered_df who accepted c, x100
RealPercent(c, year) ==
    LET of_year  == {i \in DOMAIN filtered_df : filtered_df[i].Year = year}
        accepted == {i \in of_year : filtered_df[i].Campaign[c] = 1}
    IN  Frac(100 * Cardinality(accepted), Cardinality(of_year))

RowsOfYear(year) == {i \in DOMAIN yearly_trends : yearly_trends[i].Year = year}

\* C16: the fill only adds rows: every year of the filtered data keeps one
\* row holding the real yearly means, not clamped, and the rows of all other
\* years are those of the years of 2019..2024 absent from the real means
C16_FillOnlyAdds ==
    Ran("trends") =>
        /\ \A y \in YearsOf(filtered_df) :
              /\ Cardinality(RowsOfYear(y)) = 1
              /\ \A c \in CampaignSet : TrendCell(c, y) = RealPercent(c, y)
        /\ \A i \in DOMAIN yearly_trends :
              yearly_trends[i].Year \notin YearsOf(filtered_df)
                  => /\ yearly_trends[i].Year \in Range(all_years)
                     /\ Cardinality(RowsOfYear(yearly_trends[i].Year)) = 1

\* a real yearly mean above max_rates is kept as it is next to synthesized rows
C16_Witness ==
    /\ pc = "trends"
    /\ \E y \in YearsOf(filtered_df) : \E c \in CampaignSet :
          /\ Less(Mul(max_rates[c], Whole(100)), TrendCell(c, y))
          /\ TrendCell(c, y) = RealPercent(c, y)
    /\ Len(yearly_trends) > Cardinality(YearsOf(filtered_df))

\* the share of the customers of a month in filtered_df who accepted c
MonthShare(c, month) ==
    LET of_month == {i \in DOMAIN filtered_df : filtered_df[i].Month = month}
        accepted == {i \in of_month : filtered_df[i].Campaign[c] = 1}
    IN  Frac(Cardinality(accepted), Cardinality(of_month))

\* C17: with a non-empty filtered_df the best month of each campaign is a
\* month of the filtered data whose mean acceptance is the largest, the
\* earliest such month on a tie, and the rate is 100 times that mean
C17_BestMonthIsMaximum ==
    (Ran("best_months") /\ filtered_df # <<>>) =>
        \A c \in CampaignSet :
            \E m \in MonthsOf(filtered_df) :
                /\ best_months[c][1] = month_names[m]
                /\ best_months[c][2] = Mul(MonthShare(c, m), Whole(100))
                /\ \A k \in MonthsOf(filtered_df) :
                      /\ Leq(MonthShare(c, k), MonthShare(c, m))
                      /\ k < m => Less(MonthShare(c, k), MonthShare(c, m))

\* two months share the largest mean of a campaign and the earlier is reported
C17_Witness ==
    /\ pc = "best_months"
    /\ \E c \in CampaignSet : \E m1, m2 \in MonthsOf(filtered_df) :
          /\ m1 < m2
          /\ MonthShare(c, m1) = MonthShare(c, m2)
          /\ Less(Whole(0), MonthShare(c, m1))
          /\ \A k \in MonthsOf(filtered_df) : Leq(MonthShare(c, k), MonthShare(c, m1))
          /\ best_months[c][1] = month_names[m1]

====
